---- MODULE Spec2Model ----
(***************************************************************************)
(* Request-lifecycle orchestration of the forum analysis application       *)
(* (src/app.py): the QueryProcessorCache, the /ask handler with its        *)
(* background ingestion thread, message queue and response generator.      *)
(*                                                                         *)
(* Strings are sequences of one-character strings.  Handles returned by    *)
(* the QueryProcessor constructor are positive integers (0 = no handle).   *)
(***************************************************************************)
EXTENDS Integers, Sequences, FiniteSets, TLC

\* ---------------------------------------------------------------- bounds
\* largest capacity (max_size) a cache is constructed with
MaxCapacity == 2
\* constructor invocations allowed to the free cache callers
MaxConstructions == 3
\* number of threads calling the cache concurrently
NumThreads == 2
\* longest raw existing_thread / thread_key field of a request
MaxKeyFieldLen == 4
\* longest raw prompt field of a request
MaxPromptLen == 1
\* longest raw url field of a request
MaxUrlLen == 1
\* progress callbacks one ingestion makes at most
MaxProgress == 2
\* reads of the answer stream before it ends
MaxChunks == 2
\* threads calling get while a /delete_thread request is handled
NumGetters == 1
\* /ask requests streaming at the same time
NumRequests == 2

\* ---------------------------------------------------------------- strings
KeyAlphabet == {"a", "/", " "}
TextAlphabet == {"a", " "}
Whitespace == {" "}

StringsUpTo(alphabet, n) == UNION {[1..m -> alphabet] : m \in 0..n}

SetMin(S) == CHOOSE x \in S : \A y \in S : x <= y
SetMax(S) == CHOOSE x \in S : \A y \in S : x >= y

\* str.strip(): leading and trailing whitespace removed
Strip(s) ==
    LET keep == {i \in 1..Len(s) : s[i] \notin Whitespace}
    IN  IF keep = {} THEN <<>> ELSE SubSeq(s, SetMin(keep), SetMax(keep))

\* Python truthiness of a string
Truthy(s) == s /= <<>>

\* utils.security.validate_thread_key: non-empty, bounded length, allow-list
ThreadKeyMaxLen == 3
AllowedKeyChars == {"a"}
validate_thread_key(k) ==
    /\ Len(k) > 0
    /\ Len(k) <= ThreadKeyMaxLen
    /\ \A i \in 1..Len(k) : k[i] \in AllowedKeyChars

\* thread_key = None
NoKey == <<>>

\* keys that can reach the cache: what the validator lets through
ValidKeys == {k \in StringsUpTo(KeyAlphabet, ThreadKeyMaxLen) : validate_thread_key(k)}

\* ---------------------------------------------------------------- state
VARIABLES
    cache,          \* QueryProcessorCache._cache: thread key -> handle
    access_order,   \* QueryProcessorCache._access_order
    max_size,       \* QueryProcessorCache._max_size
    lock,           \* QueryProcessorCache._lock: owning thread, 0 when free
    cpc,            \* per thread: position inside a cache call
    ckey,           \* per thread: thread_key argument of the last call
    cproc,          \* per thread: local `processor`, then the returned handle
    ctor_total,     \* history: constructor invocations so far
    sole_key,       \* history: the one key all cache activity so far was a get of
    last_get,       \* history: resident keys by their most recent get, oldest first
    evicted,        \* history, per thread: keys the call in progress evicted
    lru_before,     \* history, per thread: least recently got resident key at insertion
    keys_before,    \* history, per thread: resident keys when the call took the lock
    built,          \* history, per thread: the call in progress ran the constructor
    last_op,        \* history: the last completed get or clear
    size_max,       \* history: the largest value size() returned
    apc,            \* /ask handler: "idle", "responded"
    req,            \* prompt, url, existing_thread (stripped) and reprocess
    status,         \* HTTP status of the response, 0 before there is one
    dirs,           \* thread keys whose thread directory exists
    question_history, \* <<thread_key, prompt>> entries recorded
    bpc,            \* background thread: position in process_thread_async
    todo,           \* background thread: the puts up to its next decision
    bnext,          \* background thread: where it goes after those puts
    progress_sent,  \* progress callbacks the collaborator has made
    thread_key,     \* generate_response: nonlocal thread_key
    processing_results, \* generate_response: nonlocal processing_results
    message_queue,  \* generate_response: message_queue
    processing_complete, \* generate_response: processing_complete event
    gpc,            \* response generator: position in generate_response
    stream,         \* items the generator has yielded to the response
    suspended,      \* the generator is suspended at a yield
    out_todo,       \* generator: the analysis lines still to yield
    query_results,  \* generator: query_results
    chunks_read,    \* generator: reads of response_stream so far
    collab_calls,   \* history: collaborator operations the request invoked
    dir_checks,     \* history: keys the request passed to get_thread_dir
    cache_keys,     \* history: keys the request passed to get_query_processor
    hist_adds,      \* history: add_question calls of the request
    dpc,            \* /delete_thread handler: "idle", "clearing", "history", "responded"
    dkey,           \* /delete_thread: the key handed to the delete collaborator
    dstatus,        \* /delete_thread: HTTP status of the response, 0 before there is one
    cleared_keys,   \* history: keys resident when /delete_thread cleared the cache
    r_message_queue, \* per concurrent request: the message_queue of its generator
    r_processing_complete, \* per concurrent request: its processing_complete event
    r_thread,       \* per concurrent request: its background thread, "none", "running", "done"
    r_sent,         \* per concurrent request: messages its background thread has put
    r_gen,          \* per concurrent request: its generator, "none", "polling", "done"
    r_stream        \* per concurrent request: items its generator has yielded

cacheVars == <<cache, access_order, max_size, lock, cpc, ckey, cproc>>
histVars  == <<ctor_total, sole_key, last_get, evicted, lru_before, keys_before, built,
               last_op, size_max>>
delVars   == <<dpc, dkey, dstatus, cleared_keys>>
pairVars  == <<r_message_queue, r_processing_complete, r_thread, r_sent, r_gen,
               r_stream>>
reqVars   == <<apc, req, status, delVars, pairVars>>
envVars   == <<dirs, question_history>>
bgVars    == <<bpc, todo, bnext, progress_sent, thread_key, processing_results>>
chanVars  == <<message_queue, processing_complete>>
genVars   == <<gpc, stream, suspended, out_todo, query_results, chunks_read>>
noteVars  == <<collab_calls, dir_checks, cache_keys, hist_adds>>
askVars   == <<reqVars, envVars, bgVars, chanVars, genVars, noteVars>>
vars == <<cacheVars, histVars, askVars>>

\* threads of other requests calling the cache
Threads == 1..NumThreads
\* the stream-producing context of the /ask request
Gen == 0
\* /ask requests whose generators run at the same time
Requests == 1..NumRequests
Callers == {Gen} \cup Threads

\* ---------------------------------------------------------------- helpers
\* list.remove(x): the first occurrence removed
Remove(seq, x) ==
    LET hits == {i \in 1..Len(seq) : seq[i] = x}
    IN  IF hits = {} THEN seq
        ELSE LET i == SetMin(hits)
             IN  SubSeq(seq, 1, i - 1) \o SubSeq(seq, i + 1, Len(seq))

Range(seq) == {seq[i] : i \in 1..Len(seq)}

\* the elements of seq that are in S, in their order
RECURSIVE Restrict(_, _)
Restrict(seq, S) ==
    IF seq = <<>> THEN <<>>
    ELSE IF Head(seq) \in S THEN <<Head(seq)>> \o Restrict(Tail(seq), S)
    ELSE Restrict(Tail(seq), S)

\* dict without key k
Without(f, k) == [x \in (DOMAIN f) \ {k} |-> f[x]]

\* dict with f[k] = v
With(f, k, v) == [x \in (DOMAIN f) \cup {k} |-> IF x = k THEN v ELSE f[x]]

EmptyDict == [x \in {} |-> 0]

\* history of gets: k was just got, and only resident keys are remembered
Got(order, k, resident) == Restrict(Append(Remove(order, k), k), resident)

\* history of the keys requested: still the one key, or more than one thing happened
Mixed == <<"*">>
Joined(sole, k) == IF sole = NoKey \/ sole = k THEN k ELSE Mixed

\* a completed call: what it was, its key, and the handle it returned (0: none)
LogEntry(op, k, h) == [op |-> op, key |-> k, ret |-> h]

\* ---------------------------------------------------------------- QueryProcessorCache
\* a get that does not wait for the lock
LockFree_ignored(l) == TRUE

\* `with self._lock`: the lock can be taken
LockFree(l) == l = 0

\* a lookup that never finds the key
Cached_never(c, k) == FALSE

\* `thread_key in self._cache`
Cached(c, k) == k \in DOMAIN c

\* a hit that leaves the order as it is (first in, first out)
Promote_none(order, k) == order

\* a hit that appends the key without removing its old slot
Promote_append(order, k) == Append(order, k)

\* the hit path's remove + append: k becomes the most recently used
Promote(order, k) == Append(Remove(order, k), k)

\* a loop that stops one entry too early
NeedsCleanup_late(c, n) == Cardinality(DOMAIN c) > n + 1

\* a loop that also runs when the cache is exactly full
NeedsCleanup_early(c, n) == Cardinality(DOMAIN c) >= n

\* the loop condition of _cleanup_if_needed
NeedsCleanup(c, n) == Cardinality(DOMAIN c) > n

\* a thread that is not inside a cache call
Outside(t) == cpc[t] \in {"idle", "returned", "raised"}

\* the per-call history is dropped when the call is over
CallOver(t) ==
    /\ evicted' = [evicted EXCEPT ![t] = <<>>]
    /\ lru_before' = [lru_before EXCEPT ![t] = NoKey]
    /\ keys_before' = [keys_before EXCEPT ![t] = {}]
    /\ built' = [built EXCEPT ![t] = FALSE]

\* get, up to the lock being held
GetEnter(t, k) ==
    /\ Outside(t)
    /\ LockFree(lock)
    /\ lock' = t
    /\ cpc' = [cpc EXCEPT ![t] = "lookup"]
    /\ ckey' = [ckey EXCEPT ![t] = k]
    /\ cproc' = [cproc EXCEPT ![t] = 0]
    /\ sole_key' = Joined(sole_key, k)
    /\ keys_before' = [keys_before EXCEPT ![t] = DOMAIN cache]
    /\ UNCHANGED <<cache, access_order, max_size, ctor_total, last_get, evicted,
                   lru_before, built, last_op, size_max>>

\* get, the key is cached: promote it and return its handle
GetHit(t) ==
    /\ cpc[t] = "lookup"
    /\ Cached(cache, ckey[t])
    /\ access_order' = Promote(access_order, ckey[t])
    /\ cproc' = [cproc EXCEPT ![t] = cache[ckey[t]]]
    /\ lock' = 0
    /\ cpc' = [cpc EXCEPT ![t] = "returned"]
    /\ last_get' = Got(last_get, ckey[t], DOMAIN cache)
    /\ last_op' = LogEntry("get", ckey[t], cache[ckey[t]])
    /\ CallOver(t)
    /\ UNCHANGED <<cache, max_size, ckey, ctor_total, sole_key, size_max>>

\* get, the key is not cached: get_thread_dir, then the constructor is entered
GetMiss(t) ==
    /\ cpc[t] = "lookup"
    /\ ~Cached(cache, ckey[t])
    /\ cpc' = [cpc EXCEPT ![t] = "constructing"]
    /\ ctor_total' = ctor_total + 1
    /\ built' = [built EXCEPT ![t] = TRUE]
    /\ UNCHANGED <<cache, access_order, max_size, lock, ckey, cproc, sole_key, last_get,
                   evicted, lru_before, keys_before, last_op, size_max>>

\* QueryProcessor(thread_dir) returns a new object
ConstructOk(t) ==
    /\ cpc[t] = "constructing"
    /\ cproc' = [cproc EXCEPT ![t] = ctor_total]
    /\ cpc' = [cpc EXCEPT ![t] = "insert"]
    /\ UNCHANGED <<cache, access_order, max_size, lock, ckey, histVars>>

\* QueryProcessor(thread_dir) raises: the with block releases the lock
ConstructRaise(t) ==
    /\ cpc[t] = "constructing"
    /\ lock' = 0
    /\ cpc' = [cpc EXCEPT ![t] = "raised"]
    /\ sole_key' = Mixed
    /\ last_op' = LogEntry("raise", ckey[t], 0)
    /\ CallOver(t)
    /\ UNCHANGED <<cache, access_order, max_size, ckey, cproc, ctor_total, last_get,
                   size_max>>

\* the new processor is added to the dict and to the end of the order
GetInsert(t) ==
    /\ cpc[t] = "insert"
    /\ cache' = With(cache, ckey[t], cproc[t])
    /\ access_order' = Append(access_order, ckey[t])
    /\ cpc' = [cpc EXCEPT ![t] = "cleanup"]
    /\ lru_before' = [lru_before EXCEPT ![t] =
                         IF last_get = <<>> THEN NoKey ELSE Head(last_get)]
    /\ last_get' = Got(last_get, ckey[t], DOMAIN cache')
    /\ UNCHANGED <<max_size, lock, ckey, cproc, ctor_total, sole_key, evicted,
                   keys_before, built, last_op, size_max>>

\* one round of the while loop of _cleanup_if_needed; pop(0) of an empty list raises
CleanupEvict(t) ==
    /\ cpc[t] = "cleanup"
    /\ NeedsCleanup(cache, max_size)
    /\ IF access_order = <<>>
       THEN /\ lock' = 0
            /\ cpc' = [cpc EXCEPT ![t] = "raised"]
            /\ last_op' = LogEntry("raise", ckey[t], 0)
            /\ CallOver(t)
            /\ UNCHANGED <<cache, access_order, last_get>>
       ELSE /\ access_order' = Tail(access_order)
            /\ cache' = IF Head(access_order) \in DOMAIN cache
                           THEN Without(cache, Head(access_order)) ELSE cache
            /\ evicted' = [evicted EXCEPT ![t] = Append(@, Head(access_order))]
            /\ last_get' = Restrict(last_get, DOMAIN cache')
            /\ UNCHANGED <<lock, cpc, lru_before, keys_before, built, last_op>>
    /\ UNCHANGED <<max_size, ckey, cproc, ctor_total, sole_key, size_max>>

\* the loop ends, get returns the new processor
CleanupDone(t) ==
    /\ cpc[t] = "cleanup"
    /\ ~NeedsCleanup(cache, max_size)
    /\ lock' = 0
    /\ cpc' = [cpc EXCEPT ![t] = "returned"]
    /\ last_op' = LogEntry("get", ckey[t], cproc[t])
    /\ CallOver(t)
    /\ UNCHANGED <<cache, access_order, max_size, ckey, cproc, ctor_total, sole_key,
                   last_get, size_max>>

\* a clear that returns without emptying the containers
Clear_keeps_entries(t) ==
    /\ Outside(t)
    /\ LockFree(lock)
    /\ cpc' = [cpc EXCEPT ![t] = "idle"]
    /\ sole_key' = Mixed
    /\ last_op' = LogEntry("clear", NoKey, 0)
    /\ ckey' = [ckey EXCEPT ![t] = NoKey]
    /\ cproc' = [cproc EXCEPT ![t] = 0]
    /\ UNCHANGED <<cache, access_order, last_get, max_size, lock, ctor_total, evicted,
                   lru_before, keys_before, built, size_max>>

\* clear: both containers emptied under the lock; the caller is left with no key
\* and no handle of an earlier get
Clear(t) ==
    /\ Outside(t)
    /\ LockFree(lock)
    /\ cache' = EmptyDict
    /\ access_order' = <<>>
    /\ cpc' = [cpc EXCEPT ![t] = "idle"]
    /\ sole_key' = Mixed
    /\ last_get' = <<>>
    /\ last_op' = LogEntry("clear", NoKey, 0)
    /\ ckey' = [ckey EXCEPT ![t] = NoKey]
    /\ cproc' = [cproc EXCEPT ![t] = 0]
    /\ UNCHANGED <<max_size, lock, ctor_total, evicted, lru_before,
                   keys_before, built, size_max>>

\* size: len(self._cache), read without the lock
Size(t) ==
    /\ Outside(t)
    /\ size_max' = IF Cardinality(DOMAIN cache) > size_max
                   THEN Cardinality(DOMAIN cache) ELSE size_max
    /\ UNCHANGED <<cacheVars, ctor_total, sole_key, last_get, evicted, lru_before,
                   keys_before, built, last_op>>

\* QueryProcessorCache(max_size): empty containers, lock free
CacheInit ==
    /\ cache = EmptyDict
    /\ access_order = <<>>
    /\ max_size \in 0..MaxCapacity
    /\ lock = 0
    /\ cpc = [t \in Callers |-> "idle"]
    /\ ckey = [t \in Callers |-> NoKey]
    /\ cproc = [t \in Callers |-> 0]
    /\ ctor_total = 0
    /\ sole_key = NoKey
    /\ last_get = <<>>
    /\ evicted = [t \in Callers |-> <<>>]
    /\ lru_before = [t \in Callers |-> NoKey]
    /\ keys_before = [t \in Callers |-> {}]
    /\ built = [t \in Callers |-> FALSE]
    /\ last_op = LogEntry("none", NoKey, 0)
    /\ size_max = 0

\* a thread calls get: the constructor budget bounds the calls that will construct
CallGet(t, k) ==
    /\ Cached(cache, k) \/ ctor_total < MaxConstructions
    /\ GetEnter(t, k)

\* ---------------------------------------------------------------- /ask: the handler
\* a request body: the fields as sent
Body(p, u, e, r) == [prompt |-> p, url |-> u, existing_thread |-> e, reprocess |-> r]
NoBody == Body(<<>>, <<>>, <<>>, FALSE)

\* the request bodies tried
Bodies ==
    {Body(p, u, e, r) : p \in StringsUpTo(TextAlphabet, MaxPromptLen),
                        u \in StringsUpTo(TextAlphabet, MaxUrlLen),
                        e \in StringsUpTo(KeyAlphabet, MaxKeyFieldLen),
                        r \in BOOLEAN}

\* the fields of a body as the handler sees them: prompt, url and existing_thread
\* stripped
Stripped(b) == Body(Strip(b.prompt), Strip(b.url), Strip(b.existing_thread), b.reprocess)

\* validate_request_parameters: the error message, "" for None
validate_request_parameters(prompt, url, existing_thread) ==
    IF ~Truthy(prompt) \/ ~Truthy(Strip(prompt)) THEN "Prompt is required"
    ELSE IF ~Truthy(url) /\ ~Truthy(existing_thread)
         THEN "Either URL or existing thread must be provided"
    ELSE IF Truthy(url) /\ Truthy(existing_thread)
         THEN "Cannot specify both URL and existing thread"
    ELSE ""

\* a handler that lets reprocess through together with a url
AskStatus_reprocess_unchecked(prompt, url, existing_thread, reprocess) ==
    IF validate_request_parameters(prompt, url, existing_thread) /= "" THEN 400
    ELSE IF Truthy(existing_thread) /\ Truthy(url) THEN 400
    ELSE IF Truthy(existing_thread) /\ ~validate_thread_key(existing_thread) THEN 400
    ELSE 200

\* a handler that does not validate the thread key
AskStatus_key_unchecked(prompt, url, existing_thread, reprocess) ==
    IF validate_request_parameters(prompt, url, existing_thread) /= "" THEN 400
    ELSE IF Truthy(existing_thread) /\ Truthy(url) THEN 400
    ELSE IF Truthy(url) /\ reprocess THEN 400
    ELSE 200

\* ask, up to the Response it returns: 400 for a rejected request, 200 with the
\* generator as body otherwise
AskStatus(prompt, url, existing_thread, reprocess) ==
    IF validate_request_parameters(prompt, url, existing_thread) /= "" THEN 400
    ELSE IF Truthy(existing_thread) /\ Truthy(url) THEN 400
    ELSE IF Truthy(url) /\ reprocess THEN 400
    ELSE IF Truthy(existing_thread) /\ ~validate_thread_key(existing_thread) THEN 400
    ELSE 200

\* ---------------------------------------------------------------- /ask: messages
\* a line of the stream: what it says, and the key, url or number it carries
Line(kind, key, url, n) == [kind |-> kind, key |-> key, url |-> url, n |-> n]
Plain(kind) == Line(kind, NoKey, <<>>, 0)
KeyLine(kind, key) == Line(kind, key, <<>>, 0)

\* lines whose text starts with "Error" (after the leading newlines)
ErrorKinds == {"not_found", "exception", "failed", "query_error", "no_response"}
\* lines of the query and answer phase that are not errors
QueryPhaseKinds == {"analyzing", "vague", "focus", "context", "blank", "chunk"}

\* utils.helpers.normalize_url: the url in its normal form
normalize_url(u) == <<"norm">> \o u

\* processing_results: None, what a collaborator returned, or the record built for a
\* thread used as it is ({'thread_key': key, 'from_cache': True})
Results(posts, preview, active, err) ==
    [present |-> TRUE, key |-> NoKey, posts_count |-> posts, analytics |-> preview,
     most_active |-> active, has_error |-> err, from_cache |-> FALSE]
NoResults ==
    [present |-> FALSE, key |-> NoKey, posts_count |-> 0, analytics |-> FALSE,
     most_active |-> FALSE, has_error |-> FALSE, from_cache |-> FALSE]
FromCache(k) ==
    [present |-> TRUE, key |-> k, posts_count |-> 0, analytics |-> FALSE,
     most_active |-> FALSE, has_error |-> FALSE, from_cache |-> TRUE]

\* the results the ingestion collaborator is tried with: no posts, posts with and
\* without an analytics summary and a most active author, and a result with an
\* error key
ResultShapes ==
    {Results(0, FALSE, FALSE, FALSE), Results(2, TRUE, FALSE, FALSE),
     Results(2, TRUE, TRUE, FALSE), Results(0, FALSE, FALSE, TRUE)}

\* a lookup that returns from the thread without reaching the finally clause
ExistingPlan_skips_finally(key, reprocess, exists) ==
    IF ~exists THEN [puts |-> <<KeyLine("not_found", key)>>, next |-> "done"]
    ELSE IF reprocess
         THEN [puts |-> <<KeyLine("reprocessing", key), Plain("reparsing")>>,
               next |-> "collab"]
    ELSE [puts |-> <<KeyLine("using", key)>>, next |-> "set_results"]

\* an existing thread that is reprocessed whether or not the request asks for it
ExistingPlan_always_reprocess(key, reprocess, exists) ==
    IF ~exists THEN [puts |-> <<KeyLine("not_found", key)>>, next |-> "finally"]
    ELSE [puts |-> <<KeyLine("reprocessing", key), Plain("reparsing")>>,
          next |-> "collab"]

\* process_thread_async, existing thread: the puts and the next position
ExistingPlan(key, reprocess, exists) ==
    IF ~exists THEN [puts |-> <<KeyLine("not_found", key)>>, next |-> "finally"]
    ELSE IF reprocess
         THEN [puts |-> <<KeyLine("reprocessing", key), Plain("reparsing")>>,
               next |-> "collab"]
    ELSE [puts |-> <<KeyLine("using", key)>>, next |-> "set_results"]

\* process_thread_async, new thread: the puts before the collaborator is called
NewThreadPlan(url) ==
    [puts |-> <<Line("creating", NoKey, normalize_url(url), 0), Plain("downloading")>>,
     next |-> "collab"]

\* the puts after reprocess_existing_thread returned
ReprocessedLines(results) ==
    <<Plain("reprocessed"), Line("posts", NoKey, <<>>, results.posts_count)>>

\* the posts line put before the line that names the thread
ProcessedLines_posts_first(key, results) ==
    <<Line("posts", NoKey, <<>>, results.posts_count), KeyLine("processed", key),
      Plain("separator")>>

\* the puts after process_thread returned: key, posts, analytics preview, separator
ProcessedLines(key, results) ==
    <<KeyLine("processed", key), Line("posts", NoKey, <<>>, results.posts_count)>>
    \o (IF results.analytics
        THEN <<Plain("participants"), Plain("pages")>>
             \o (IF results.most_active THEN <<Plain("most_active")>> ELSE <<>>)
        ELSE <<>>)
    \o <<Plain("separator")>>

\* what process_query returns: an error result, or analysis flags and a stream
Query(err, analysis, vague, intent, hints, has_stream) ==
    [error |-> err, analysis |-> analysis, is_vague |-> vague, intent |-> intent,
     hints |-> hints, has_stream |-> has_stream]
NoQuery == Query(FALSE, FALSE, FALSE, FALSE, FALSE, FALSE)

\* the query results tried
QueryShapes ==
    {Query(TRUE, FALSE, FALSE, FALSE, FALSE, FALSE),
     Query(FALSE, FALSE, FALSE, FALSE, FALSE, TRUE),
     Query(FALSE, TRUE, TRUE, FALSE, FALSE, TRUE),
     Query(FALSE, TRUE, FALSE, TRUE, TRUE, TRUE),
     Query(FALSE, FALSE, FALSE, FALSE, FALSE, FALSE)}

\* the lines yielded for query_results['analysis']
AnalysisLines(q) ==
    IF ~q.analysis THEN <<>>
    ELSE (IF q.is_vague THEN <<Plain("vague")>> ELSE <<>>)
         \o (IF q.intent THEN <<Plain("focus")>> ELSE <<>>)
         \o (IF q.hints THEN <<Plain("context")>> ELSE <<>>)
         \o <<Plain("blank")>>

\* ---------------------------------------------------------------- /ask: state at rest
AskIdle ==
    /\ apc = "idle"
    /\ req = NoBody
    /\ status = 0
    /\ dpc = "idle"
    /\ dkey = NoKey
    /\ dstatus = 0
    /\ cleared_keys = {}
    /\ r_message_queue = [r \in Requests |-> <<>>]
    /\ r_processing_complete = [r \in Requests |-> FALSE]
    /\ r_thread = [r \in Requests |-> "none"]
    /\ r_sent = [r \in Requests |-> 0]
    /\ r_gen = [r \in Requests |-> "none"]
    /\ r_stream = [r \in Requests |-> <<>>]
    /\ bpc = "none"
    /\ todo = <<>>
    /\ bnext = "none"
    /\ progress_sent = 0
    /\ thread_key = NoKey
    /\ processing_results = NoResults
    /\ message_queue = <<>>
    /\ processing_complete = FALSE
    /\ gpc = "none"
    /\ stream = <<>>
    /\ suspended = FALSE
    /\ out_todo = <<>>
    /\ query_results = NoQuery
    /\ chunks_read = 0
    /\ collab_calls = {}
    /\ dir_checks = {}
    /\ cache_keys = {}
    /\ hist_adds = 0

CacheNext ==
    /\ \E t \in Threads :
        \/ \E k \in ValidKeys : CallGet(t, k)
        \/ GetHit(t)
        \/ GetMiss(t)
        \/ ConstructOk(t)
        \/ ConstructRaise(t)
        \/ GetInsert(t)
        \/ CleanupEvict(t)
        \/ CleanupDone(t)
        \/ Clear(t)
        \/ Size(t)
    /\ UNCHANGED askVars

\* the cache as constructed, used by threads outside any /ask request
InitCache ==
    /\ CacheInit
    /\ AskIdle
    /\ dirs = {}
    /\ question_history = {}

SpecCache == InitCache /\ [][CacheNext]_vars

\* ---------------------------------------------------------------- /ask: actions
\* ask: request.get_json(), the fields stripped, the checks, and the Response; the
\* generator of a 200 response runs when the server iterates it
Handle ==
    /\ apc = "idle"
    /\ \E b \in Bodies :
           /\ req' = Stripped(b)
           /\ status' = AskStatus(req'.prompt, req'.url, req'.existing_thread,
                                  req'.reprocess)
    /\ apc' = "responded"
    /\ gpc' = IF status' = 200 THEN "start" ELSE "none"
    /\ UNCHANGED <<delVars, pairVars, envVars, bgVars, chanVars, stream, suspended,
                   out_todo, query_results, chunks_read, noteVars, cacheVars, histVars>>

\* generate_response up to processing_thread.start()
GenStart ==
    /\ gpc = "start"
    /\ message_queue' = <<>>
    /\ processing_complete' = FALSE
    /\ thread_key' = NoKey
    /\ processing_results' = NoResults
    /\ bpc' = "start"
    /\ gpc' = "check_complete"
    /\ suspended' = FALSE
    /\ UNCHANGED <<reqVars, envVars, todo, bnext, progress_sent, stream, out_todo,
                   query_results, chunks_read, noteVars, cacheVars, histVars>>

\* process_thread_async: the mode is chosen; an existing thread's directory is looked up
BgStart ==
    /\ bpc = "start"
    /\ IF Truthy(req.existing_thread)
       THEN LET plan == ExistingPlan(req.existing_thread, req.reprocess,
                                     req.existing_thread \in dirs)
            IN  /\ thread_key' = req.existing_thread
                /\ dir_checks' = dir_checks \cup {req.existing_thread}
                /\ todo' = plan.puts
                /\ bnext' = plan.next
       ELSE /\ todo' = NewThreadPlan(req.url).puts
            /\ bnext' = NewThreadPlan(req.url).next
            /\ UNCHANGED <<thread_key, dir_checks>>
    /\ bpc' = "put"
    /\ UNCHANGED <<reqVars, envVars, progress_sent, processing_results, chanVars,
                   genVars, collab_calls, cache_keys, hist_adds, cacheVars, histVars>>

\* a queue that hands out the newest message first
Enqueue_front(q, m) == <<m>> \o q

\* queue.Queue.put on the unbounded FIFO queue: the message goes to the end
Enqueue(q, m) == Append(q, m)

\* message_queue.put of the next line
BgPut ==
    /\ bpc = "put"
    /\ message_queue' = Enqueue(message_queue, Head(todo))
    /\ todo' = Tail(todo)
    /\ bpc' = IF Tail(todo) = <<>> THEN bnext ELSE "put"
    /\ UNCHANGED <<reqVars, envVars, bnext, progress_sent, thread_key,
                   processing_results, processing_complete, genVars, noteVars,
                   cacheVars, histVars>>

\* the ingestion collaborator is entered
BgCall ==
    /\ bpc = "collab"
    /\ bpc' = "in_collab"
    /\ collab_calls' = collab_calls \cup
           {IF Truthy(req.existing_thread) THEN "reprocess_existing_thread"
                                          ELSE "process_thread"}
    /\ UNCHANGED <<reqVars, envVars, todo, bnext, progress_sent, thread_key,
                   processing_results, chanVars, genVars, dir_checks, cache_keys,
                   hist_adds, cacheVars, histVars>>

\* the collaborator calls progress_update(message)
BgProgress ==
    /\ bpc = "in_collab"
    /\ progress_sent < MaxProgress
    /\ progress_sent' = progress_sent + 1
    /\ message_queue' = Enqueue(message_queue,
                                Line("progress", NoKey, <<>>, progress_sent + 1))
    /\ UNCHANGED <<reqVars, envVars, bpc, todo, bnext, thread_key, processing_results,
                   processing_complete, genVars, noteVars, cacheVars, histVars>>

\* a reprocess that stores the rebuilt thread under another key
reprocessed_key_renamed(k) == k \o <<"a">>

\* the key reprocess_existing_thread returns: reprocessing rebuilds the artifacts of
\* the key it was given
reprocessed_key(k) == k

\* reprocess_existing_thread returns: thread_key and processing_results are assigned
BgReprocessed(results) ==
    /\ bpc = "in_collab"
    /\ Truthy(req.existing_thread)
    /\ thread_key' = reprocessed_key(thread_key)
    /\ processing_results' = results
    /\ todo' = ReprocessedLines(results)
    /\ bnext' = "finally"
    /\ bpc' = "put"
    /\ UNCHANGED <<reqVars, envVars, progress_sent, chanVars, genVars,
                   noteVars, cacheVars, histVars>>

\* process_thread returns the key of the thread it stored and its results
BgProcessed(key, results) ==
    /\ bpc = "in_collab"
    /\ ~Truthy(req.existing_thread)
    /\ thread_key' = key
    /\ processing_results' = results
    /\ dirs' = dirs \cup {key}
    /\ todo' = ProcessedLines(key, results)
    /\ bnext' = "finally"
    /\ bpc' = "put"
    /\ UNCHANGED <<reqVars, question_history, progress_sent, chanVars, genVars,
                   noteVars, cacheVars, histVars>>

\* the collaborator raises: the except clause puts the error line
BgRaise ==
    /\ bpc = "in_collab"
    /\ todo' = <<Plain("exception")>>
    /\ bnext' = "finally"
    /\ bpc' = "put"
    /\ UNCHANGED <<reqVars, envVars, progress_sent, thread_key, processing_results,
                   chanVars, genVars, noteVars, cacheVars, histVars>>

\* existing thread used as it is: processing_results is set
BgSetResults ==
    /\ bpc = "set_results"
    /\ processing_results' = FromCache(thread_key)
    /\ bpc' = "finally"
    /\ UNCHANGED <<reqVars, envVars, todo, bnext, progress_sent, thread_key, chanVars,
                   genVars, noteVars, cacheVars, histVars>>

\* finally: processing_complete.set(), and the thread ends
BgFinally ==
    /\ bpc = "finally"
    /\ processing_complete' = TRUE
    /\ bpc' = "done"
    /\ UNCHANGED <<reqVars, envVars, todo, bnext, progress_sent, thread_key,
                   processing_results, message_queue, genVars, noteVars, cacheVars,
                   histVars>>

\* ---------------------------------------------------------------- /ask: the generator
\* the while condition, first half: not processing_complete.is_set()
PollCheckComplete ==
    /\ gpc = "check_complete"
    /\ gpc' = IF ~processing_complete THEN "get" ELSE "check_empty"
    /\ suspended' = FALSE
    /\ UNCHANGED <<reqVars, envVars, bgVars, chanVars, stream, out_todo, query_results,
                   chunks_read, noteVars, cacheVars, histVars>>

\* the while condition, second half: not message_queue.empty()
PollCheckEmpty ==
    /\ gpc = "check_empty"
    /\ gpc' = IF message_queue /= <<>> THEN "get" ELSE "join"
    /\ UNCHANGED <<reqVars, envVars, bgVars, chanVars, stream, suspended, out_todo,
                   query_results, chunks_read, noteVars, cacheVars, histVars>>

\* message_queue.get(timeout=0.1) returns a message, which is yielded
PollGet ==
    /\ gpc = "get"
    /\ message_queue /= <<>>
    /\ stream' = Append(stream, Head(message_queue))
    /\ message_queue' = Tail(message_queue)
    /\ suspended' = TRUE
    /\ gpc' = "check_complete"
    /\ UNCHANGED <<reqVars, envVars, bgVars, processing_complete, out_todo,
                   query_results, chunks_read, noteVars, cacheVars, histVars>>

\* message_queue.get(timeout=0.1) raises queue.Empty: continue
PollTimeout ==
    /\ gpc = "get"
    /\ message_queue = <<>>
    /\ gpc' = "check_complete"
    /\ UNCHANGED <<reqVars, envVars, bgVars, chanVars, stream, suspended, out_todo,
                   query_results, chunks_read, noteVars, cacheVars, histVars>>

\* processing_thread.join()
Join ==
    /\ gpc = "join"
    /\ bpc = "done"
    /\ gpc' = "check_key"
    /\ UNCHANGED <<reqVars, envVars, bgVars, chanVars, stream, suspended, out_todo,
                   query_results, chunks_read, noteVars, cacheVars, histVars>>

\* `if not thread_key`: the failure line and return, or the marker line
CheckKey ==
    /\ gpc = "check_key"
    /\ IF ~Truthy(thread_key)
       THEN /\ stream' = Append(stream, Plain("failed"))
            /\ gpc' = "done"
            /\ suspended' = FALSE
       ELSE /\ stream' = Append(stream, Plain("analyzing"))
            /\ gpc' = "get_qp"
            /\ suspended' = TRUE
    /\ UNCHANGED <<reqVars, envVars, bgVars, chanVars, out_todo, query_results,
                   chunks_read, noteVars, cacheVars, histVars>>

\* get_query_processor(thread_key): the cache's get is entered
QueryGet ==
    /\ gpc = "get_qp"
    /\ GetEnter(Gen, thread_key)
    /\ gpc' = "in_get"
    /\ suspended' = FALSE
    /\ cache_keys' = cache_keys \cup {thread_key}
    /\ UNCHANGED <<reqVars, envVars, bgVars, chanVars, stream, out_todo, query_results,
                   chunks_read, collab_calls, dir_checks, hist_adds>>

\* the steps of the cache's get on the generator's thread
QueryGetStep ==
    /\ gpc = "in_get"
    /\ \/ GetHit(Gen)
       \/ GetMiss(Gen)
       \/ ConstructOk(Gen)
       \/ ConstructRaise(Gen)
       \/ GetInsert(Gen)
       \/ CleanupEvict(Gen)
       \/ CleanupDone(Gen)
    /\ UNCHANGED askVars

\* the except clause of generate_response: the error line ends the stream
GenExcept ==
    /\ stream' = Append(stream, Plain("exception"))
    /\ gpc' = "done"
    /\ suspended' = FALSE

\* get_query_processor raised
QueryGetRaised ==
    /\ gpc = "in_get"
    /\ cpc[Gen] = "raised"
    /\ GenExcept
    /\ UNCHANGED <<reqVars, envVars, bgVars, chanVars, out_todo, query_results,
                   chunks_read, noteVars, cacheVars, histVars>>

\* process_query returns: an error result ends the stream, else the analysis lines
QueryRun(q) ==
    /\ gpc = "in_get"
    /\ cpc[Gen] = "returned"
    /\ query_results' = q
    /\ collab_calls' = collab_calls \cup {"process_query"}
    /\ IF q.error
       THEN /\ stream' = Append(stream, Plain("query_error"))
            /\ gpc' = "done"
            /\ UNCHANGED out_todo
       ELSE /\ out_todo' = AnalysisLines(q)
            /\ gpc' = IF AnalysisLines(q) = <<>> THEN "stream_check" ELSE "hints"
            /\ UNCHANGED stream
    /\ suspended' = FALSE
    /\ UNCHANGED <<reqVars, envVars, bgVars, chanVars, chunks_read, dir_checks,
                   cache_keys, hist_adds, cacheVars, histVars>>

\* process_query raises
QueryRaise ==
    /\ gpc = "in_get"
    /\ cpc[Gen] = "returned"
    /\ collab_calls' = collab_calls \cup {"process_query"}
    /\ GenExcept
    /\ UNCHANGED <<reqVars, envVars, bgVars, chanVars, out_todo, query_results,
                   chunks_read, dir_checks, cache_keys, hist_adds, cacheVars, histVars>>

\* the next analysis line is yielded
Hints ==
    /\ gpc = "hints"
    /\ stream' = Append(stream, Head(out_todo))
    /\ out_todo' = Tail(out_todo)
    /\ suspended' = TRUE
    /\ gpc' = IF Tail(out_todo) = <<>> THEN "stream_check" ELSE "hints"
    /\ UNCHANGED <<reqVars, envVars, bgVars, chanVars, query_results, chunks_read,
                   noteVars, cacheVars, histVars>>

\* `if response_stream`: without one, the error line ends the stream
StreamCheck ==
    /\ gpc = "stream_check"
    /\ IF query_results.has_stream
       THEN gpc' = "iterate" /\ UNCHANGED stream
       ELSE gpc' = "done" /\ stream' = Append(stream, Plain("no_response"))
    /\ suspended' = FALSE
    /\ UNCHANGED <<reqVars, envVars, bgVars, chanVars, out_todo, query_results,
                   chunks_read, noteVars, cacheVars, histVars>>

\* response_stream gives a non-empty chunk, which is yielded
NextChunk ==
    /\ gpc = "iterate"
    /\ chunks_read < MaxChunks
    /\ chunks_read' = chunks_read + 1
    /\ stream' = Append(stream, Line("chunk", NoKey, <<>>, chunks_read + 1))
    /\ suspended' = TRUE
    /\ UNCHANGED <<reqVars, envVars, bgVars, chanVars, gpc, out_todo, query_results,
                   noteVars, cacheVars, histVars>>

\* response_stream gives an empty chunk, which is skipped
EmptyChunk ==
    /\ gpc = "iterate"
    /\ chunks_read < MaxChunks
    /\ chunks_read' = chunks_read + 1
    /\ suspended' = FALSE
    /\ UNCHANGED <<reqVars, envVars, bgVars, chanVars, gpc, stream, out_todo,
                   query_results, noteVars, cacheVars, histVars>>

\* response_stream ends: the question is added to the history
StreamEnd ==
    /\ gpc = "iterate"
    /\ question_history' = question_history \cup {<<thread_key, req.prompt>>}
    /\ hist_adds' = hist_adds + 1
    /\ collab_calls' = collab_calls \cup {"add_question"}
    /\ gpc' = "done"
    /\ suspended' = FALSE
    /\ UNCHANGED <<reqVars, dirs, bgVars, chanVars, stream, out_todo, query_results,
                   chunks_read, dir_checks, cache_keys, cacheVars, histVars>>

\* response_stream raises while it is iterated
StreamRaise ==
    /\ gpc = "iterate"
    /\ GenExcept
    /\ UNCHANGED <<reqVars, envVars, bgVars, chanVars, out_todo, query_results,
                   chunks_read, noteVars, cacheVars, histVars>>

\* a disconnect that also stops the background thread where it is
Disconnect_cancels ==
    /\ suspended
    /\ gpc \notin {"none", "done", "closed"}
    /\ gpc' = "closed"
    /\ suspended' = FALSE
    /\ bpc' = "done"
    /\ todo' = <<>>
    /\ UNCHANGED <<reqVars, envVars, bnext, progress_sent, thread_key,
                   processing_results, chanVars, stream, out_todo, query_results,
                   chunks_read, noteVars, cacheVars, histVars>>

\* the client disconnects: the generator, suspended at a yield, is closed
Disconnect ==
    /\ suspended
    /\ gpc \notin {"none", "done", "closed"}
    /\ gpc' = "closed"
    /\ suspended' = FALSE
    /\ UNCHANGED <<reqVars, envVars, bgVars, chanVars, stream, out_todo, query_results,
                   chunks_read, noteVars, cacheVars, histVars>>

\* ---------------------------------------------------------------- /ask: specification
\* the cache after one completed get(k) by another request's thread
CacheWarm(k) ==
    /\ cache = With(EmptyDict, k, 1)
    /\ access_order = <<k>>
    /\ max_size \in 1..MaxCapacity
    /\ lock = 0
    /\ cpc = [t \in Callers |-> IF t = 1 THEN "returned" ELSE "idle"]
    /\ ckey = [t \in Callers |-> IF t = 1 THEN k ELSE NoKey]
    /\ cproc = [t \in Callers |-> IF t = 1 THEN 1 ELSE 0]
    /\ ctor_total = 1
    /\ sole_key = k
    /\ last_get = <<k>>
    /\ evicted = [t \in Callers |-> <<>>]
    /\ lru_before = [t \in Callers |-> NoKey]
    /\ keys_before = [t \in Callers |-> {}]
    /\ built = [t \in Callers |-> FALSE]
    /\ last_op = LogEntry("get", k, 1)
    /\ size_max = 0

\* the key of that other request
WarmKey == <<"a">>

\* the thread directories on disk when the request arrives: none, or those of the
\* keys up to some length
DirSets == {{k \in ValidKeys : Len(k) <= n} : n \in 0..ThreadKeyMaxLen}

\* no request yet; the cache as constructed or after one get of another request
Init ==
    /\ CacheInit \/ CacheWarm(WarmKey)
    /\ AskIdle
    /\ dirs \in DirSets
    /\ question_history = {}

Next ==
    \/ Handle
    \/ GenStart
    \/ BgStart
    \/ BgPut
    \/ BgCall
    \/ BgProgress
    \/ \E r \in ResultShapes : BgReprocessed(r)
    \/ \E k \in ValidKeys, r \in ResultShapes : BgProcessed(k, r)
    \/ BgRaise
    \/ BgSetResults
    \/ BgFinally
    \/ PollCheckComplete
    \/ PollCheckEmpty
    \/ PollGet
    \/ PollTimeout
    \/ Join
    \/ CheckKey
    \/ QueryGet
    \/ QueryGetStep
    \/ QueryGetRaised
    \/ \E q \in QueryShapes : QueryRun(q)
    \/ QueryRaise
    \/ Hints
    \/ StreamCheck
    \/ NextChunk
    \/ EmptyChunk
    \/ StreamEnd
    \/ StreamRaise
    \/ Disconnect

Spec == Init /\ [][Next]_vars

\* ---------------------------------------------------------------- /ask: scheduling
\* the steps of the background thread (threading.Thread(target=process_thread_async))
BgTask ==
    \/ BgStart
    \/ BgPut
    \/ BgCall
    \/ BgProgress
    \/ \E r \in ResultShapes : BgReprocessed(r)
    \/ \E k \in ValidKeys, r \in ResultShapes : BgProcessed(k, r)
    \/ BgRaise
    \/ BgSetResults
    \/ BgFinally

\* the steps of the generator while the server iterates it
Consumer ==
    \/ GenStart
    \/ PollCheckComplete
    \/ PollCheckEmpty
    \/ PollGet
    \/ PollTimeout
    \/ Join
    \/ CheckKey
    \/ QueryGet
    \/ QueryGetStep
    \/ QueryGetRaised
    \/ \E q \in QueryShapes : QueryRun(q)
    \/ QueryRaise
    \/ Hints
    \/ StreamCheck
    \/ NextChunk
    \/ EmptyChunk
    \/ StreamEnd
    \/ StreamRaise

\* no request yet; a cache of capacity 1 that holds the engine of the one thread
\* that has a directory
InitLive ==
    /\ CacheWarm(WarmKey)
    /\ max_size = 1
    /\ AskIdle
    /\ dirs = {WarmKey}
    /\ question_history = {}

\* the request under a fair scheduler: a thread that can run does run, and every
\* collaborator call returns or raises; the client may disconnect or not
SpecLive == InitLive /\ [][Next]_vars /\ WF_vars(BgTask) /\ WF_vars(Consumer)

\* ---------------------------------------------------------------- /delete_thread
\* the thread that handles the /delete_thread request
DelThread == 0
\* threads of other requests calling get meanwhile
Getters == 1..NumGetters

\* everything of /ask, and the directories' other users, left alone
askRest == <<apc, req, status, pairVars, bgVars, chanVars, genVars, noteVars>>

\* question_history.clear_thread_history(k): the entries of thread k removed
clear_thread_history(h, k) == {e \in h : e[1] /= k}

\* a handler that hands any non-empty key to the delete collaborator
DeleteStatus_unvalidated(k, found) ==
    IF ~Truthy(k) THEN 400
    ELSE IF found THEN 200
    ELSE 404

\* delete_thread: the status answered for a stripped thread_key, given what the
\* delete collaborator reports when it is asked
DeleteStatus(k, found) ==
    IF ~Truthy(k) THEN 400
    ELSE IF ~validate_thread_key(k) THEN 400
    ELSE IF found THEN 200
    ELSE 404

\* the thread_key fields of the requests tried, stripped: those the handler rejects
\* (empty or refused by the validator) and those it hands to the collaborator
KeyFields == {Strip(raw) : raw \in StringsUpTo(KeyAlphabet, MaxKeyFieldLen)}
RejectedKeys == {k \in KeyFields : DeleteStatus(k, TRUE) = 400}
AcceptedKeys == KeyFields \ RejectedKeys

\* delete_thread: an empty or invalid thread_key is answered with 400
DeleteReject ==
    /\ dpc = "idle"
    /\ RejectedKeys /= {}
    /\ dpc' = "responded"
    /\ dstatus' = 400
    /\ UNCHANGED <<dkey, cleared_keys, envVars, askRest, cacheVars, histVars>>

\* delete_thread: thread_processor.delete_thread(thread_key) removes the thread's
\* directory and reports whether there was one; not found is answered with 404
DeleteCall ==
    /\ dpc = "idle"
    /\ dkey' \in AcceptedKeys
    /\ IF DeleteStatus(dkey', dkey' \in dirs) = 200
       THEN dpc' = "clearing" /\ dstatus' = 0
       ELSE dpc' = "responded" /\ dstatus' = DeleteStatus(dkey', dkey' \in dirs)
    /\ dirs' = dirs \ {dkey'}
    /\ UNCHANGED <<cleared_keys, question_history, askRest, cacheVars, histVars>>

\* delete_thread: the collaborator raises, the except clause answers with 500
DeleteCallRaise ==
    /\ dpc = "idle"
    /\ dkey' \in AcceptedKeys
    /\ dpc' = "responded"
    /\ dstatus' = 500
    /\ UNCHANGED <<cleared_keys, envVars, askRest, cacheVars, histVars>>

\* delete_thread, after a successful deletion: query_processor_cache.clear()
DeleteClear ==
    /\ dpc = "clearing"
    /\ Clear(DelThread)
    /\ cleared_keys' = DOMAIN cache
    /\ dpc' = "history"
    /\ UNCHANGED <<dkey, dstatus, envVars, askRest>>

\* delete_thread: the thread's question history is cleared and 200 is returned
DeleteHistory ==
    /\ dpc = "history"
    /\ question_history' = clear_thread_history(question_history, dkey)
    /\ dpc' = "responded"
    /\ dstatus' = 200
    /\ UNCHANGED <<dkey, cleared_keys, dirs, askRest, cacheVars, histVars>>

\* delete_thread: clearing the history raises, the except clause answers with 500
DeleteHistoryRaise ==
    /\ dpc = "history"
    /\ dpc' = "responded"
    /\ dstatus' = 500
    /\ UNCHANGED <<dkey, cleared_keys, envVars, askRest, cacheVars, histVars>>

\* a get of another request, step by step
GetterStep ==
    /\ \E t \in Getters :
        \/ \E k \in ValidKeys : CallGet(t, k)
        \/ GetHit(t)
        \/ GetMiss(t)
        \/ ConstructOk(t)
        \/ ConstructRaise(t)
        \/ GetInsert(t)
        \/ CleanupEvict(t)
        \/ CleanupDone(t)
    /\ UNCHANGED askVars

\* the cache as constructed; every thread but the one with the longest key has a
\* directory and one recorded question
InitDelete ==
    /\ CacheInit
    /\ AskIdle
    /\ dirs = {k \in ValidKeys : Len(k) < ThreadKeyMaxLen}
    /\ question_history = {<<k, <<"a">>>> : k \in dirs}

NextDelete ==
    \/ DeleteReject
    \/ DeleteCall
    \/ DeleteCallRaise
    \/ DeleteClear
    \/ DeleteHistory
    \/ DeleteHistoryRaise
    \/ GetterStep

SpecDelete == InitDelete /\ [][NextDelete]_vars

\* ---------------------------------------------------------------- /ask: concurrent requests
\* everything but the queues, events, threads and generators of the concurrent requests
soloVars == <<cacheVars, histVars, apc, req, status, delVars, envVars, bgVars, chanVars,
              genVars, noteVars>>

\* a message: the request whose code produced it (history) and its number; the lines
\* a generator yields of its own after the loop have number 0
Msg(r, n) == [owner |-> r, n |-> n]

\* one queue, created once, that every request puts to
QueueOf_shared(r) == 1

\* the queue the puts of request r go to: message_queue is a local of the
\* generate_response call, and progress_update closes over it
QueueOf(r) == r

\* generate_response of request r up to processing_thread.start(): its own queue and
\* event are created and its thread is started
PairStart(r) ==
    /\ r_gen[r] = "none"
    /\ r_message_queue' = [r_message_queue EXCEPT ![r] = <<>>]
    /\ r_processing_complete' = [r_processing_complete EXCEPT ![r] = FALSE]
    /\ r_thread' = [r_thread EXCEPT ![r] = "running"]
    /\ r_gen' = [r_gen EXCEPT ![r] = "polling"]
    /\ UNCHANGED <<r_sent, r_stream, soloVars>>

\* the background thread of request r puts a message, directly or through the
\* progress_update callback it handed to the collaborator
PairPut(r) ==
    /\ r_thread[r] = "running"
    /\ r_sent[r] < MaxProgress
    /\ r_message_queue' = [r_message_queue EXCEPT ![QueueOf(r)] =
                               Enqueue(@, Msg(r, r_sent[r] + 1))]
    /\ r_sent' = [r_sent EXCEPT ![r] = @ + 1]
    /\ UNCHANGED <<r_processing_complete, r_thread, r_gen, r_stream, soloVars>>

\* finally: the thread of request r sets its event and ends
PairFinally(r) ==
    /\ r_thread[r] = "running"
    /\ r_processing_complete' = [r_processing_complete EXCEPT ![r] = TRUE]
    /\ r_thread' = [r_thread EXCEPT ![r] = "done"]
    /\ UNCHANGED <<r_message_queue, r_sent, r_gen, r_stream, soloVars>>

\* the generator of request r gets a message from its queue and yields it
PairGet(r) ==
    /\ r_gen[r] = "polling"
    /\ r_message_queue[r] /= <<>>
    /\ r_stream' = [r_stream EXCEPT ![r] = Append(@, Head(r_message_queue[r]))]
    /\ r_message_queue' = [r_message_queue EXCEPT ![r] = Tail(@)]
    /\ UNCHANGED <<r_processing_complete, r_thread, r_sent, r_gen, soloVars>>

\* the generator of request r leaves the loop (event set, queue empty), joins its
\* thread and yields its first line of the query phase
PairLeave(r) ==
    /\ r_gen[r] = "polling"
    /\ r_processing_complete[r]
    /\ r_message_queue[r] = <<>>
    /\ r_thread[r] = "done"
    /\ r_stream' = [r_stream EXCEPT ![r] = Append(@, Msg(r, 0))]
    /\ r_gen' = [r_gen EXCEPT ![r] = "done"]
    /\ UNCHANGED <<r_message_queue, r_processing_complete, r_thread, r_sent, soloVars>>

\* no request yet, the cache as constructed
InitPair ==
    /\ CacheInit
    /\ max_size = MaxCapacity
    /\ AskIdle
    /\ dirs = {}
    /\ question_history = {}

NextPair ==
    \E r \in Requests :
        \/ PairStart(r)
        \/ PairPut(r)
        \/ PairFinally(r)
        \/ PairGet(r)
        \/ PairLeave(r)

SpecPair == InitPair /\ [][NextPair]_vars

\* ---------------------------------------------------------------- cache properties
AllOutside == \A t \in Callers : Outside(t)

\* C2: whenever every get and clear called so far has completed, the number of
\* resident entries is at most the capacity max_size (any keys, any order, any
\* capacity >= 0).
C2_SizeWithinCapacity ==
    AllOutside => Cardinality(DOMAIN cache) <= max_size

\* C2 witness: a full cache of capacity 2 after three constructions, no call running
C2_Witness ==
    /\ AllOutside
    /\ max_size = 2
    /\ Cardinality(DOMAIN cache) = 2
    /\ ctor_total >= 3
    /\ last_op.op = "get"

\* C3: when a get of an uncached key returns and its insertion made the cache exceed
\* the capacity (capacity >= 1), exactly one entry was evicted: the resident key whose
\* most recent get was the oldest, which is never the key just inserted; a get whose
\* insertion did not exceed the capacity evicted nothing.
C3_EvictsLeastRecentlyUsed ==
    [][\A t \in Callers :
          (cpc[t] = "cleanup" /\ cpc'[t] = "returned" /\ max_size >= 1) =>
              IF Cardinality(keys_before[t]) + 1 > max_size
              THEN /\ Len(evicted[t]) = 1
                   /\ evicted[t][1] = lru_before[t]
                   /\ evicted[t][1] /= ckey[t]
                   /\ DOMAIN cache' = (keys_before[t] \cup {ckey[t]}) \ {lru_before[t]}
              ELSE /\ evicted[t] = <<>>
                   /\ DOMAIN cache' = keys_before[t] \cup {ckey[t]}]_vars

\* C3 witness: a get about to return from a cache of capacity 2 after evicting a key
\* that was inserted later than a key that stays (a hit had promoted the older one)
C3_Witness ==
    \E t \in Threads :
        /\ cpc[t] = "cleanup"
        /\ max_size = 2
        /\ Cardinality(DOMAIN cache) = 2
        /\ Len(evicted[t]) = 1
        /\ \E k \in DOMAIN cache : cache[k] = 1
        /\ ctor_total = 3

\* C4: as long as all cache activity is gets of one key k (capacity >= 1, no clear, no
\* constructor failure), the constructor has run at most once, and once some caller
\* has returned it has run exactly once, k is resident, and every caller that has
\* returned holds the resident handle.
C4_OneConstructionPerKey ==
    \A k \in ValidKeys :
        (sole_key = k /\ max_size >= 1) =>
            /\ ctor_total <= 1
            /\ \A t \in Callers :
                   (cpc[t] = "returned") =>
                       /\ ctor_total = 1
                       /\ k \in DOMAIN cache
                       /\ cproc[t] = cache[k]

\* C4 witness: every thread has returned from a get of the same key
C4_Witness ==
    \E k \in ValidKeys :
        /\ sole_key = k
        /\ max_size >= 1
        /\ \A t \in Threads : cpc[t] = "returned" /\ ckey[t] = k

\* a get by t returns in this step, right after a completed get of the same key
SecondGetReturns(t) ==
    /\ cpc[t] \in {"lookup", "cleanup"}
    /\ cpc'[t] = "returned"
    /\ last_op.op = "get"
    /\ last_op.key = ckey[t]

\* the returning get returns the previous handle, built nothing, kept the resident keys
SameAsBefore(t) ==
    /\ cproc'[t] = last_op.ret
    /\ ~built[t]
    /\ DOMAIN cache' = keys_before[t]

\* C5 as stated: a get that directly follows a completed get of the same key returns
\* the same handle, runs no constructor and leaves the resident keys (and so the
\* size) unchanged, for any capacity.
C5_AsStated ==
    [][\A t \in Callers : SecondGetReturns(t) => SameAsBefore(t)]_vars

\* C5 amended: the same, for a capacity of at least 1.
C5_SecondGetIsHit ==
    [][\A t \in Callers : (SecondGetReturns(t) /\ max_size >= 1) => SameAsBefore(t)]_vars

\* C5 witness: a thread has returned the handle the previous get of that key returned,
\* from a cache of capacity >= 1, after the key was built
C5_Witness ==
    \E t \in Threads :
        /\ cpc[t] = "returned"
        /\ max_size >= 1
        /\ last_op = LogEntry("get", ckey[t], cproc[t])
        /\ ctor_total = 1
        /\ \E u \in Threads : u /= t /\ cpc[u] = "returned" /\ ckey[u] = ckey[t]

\* a get by t returns in this step
GetReturns(t) == cpc[t] \in {"lookup", "cleanup"} /\ cpc'[t] = "returned"

\* C14: from the moment a get has found its key uncached until its constructor
\* raises, no step changes the cache map or the recency order; when the constructor
\* raises, the lock is released and the map has the keys it had when the call took
\* the lock, with no entry and no recency slot for the key; and a get that completes
\* right after a failed call returns a handle, resident under its key (capacity >= 1).
C14_FailedConstructionLeavesNoTrace ==
    [][\A t \in Callers :
          /\ (cpc[t] = "lookup" /\ cpc'[t] \in {"lookup", "constructing"}) =>
                 /\ UNCHANGED <<cache, access_order>>
                 /\ DOMAIN cache = keys_before[t]
          /\ (cpc[t] = "constructing" /\ cpc'[t] /= "insert") =>
                 UNCHANGED <<cache, access_order>>
          /\ (cpc[t] = "constructing" /\ cpc'[t] = "raised") =>
                 /\ lock = t /\ lock' = 0
                 /\ DOMAIN cache' = keys_before[t]
                 /\ ckey[t] \notin DOMAIN cache'
                 /\ ckey[t] \notin Range(access_order')
          /\ (GetReturns(t) /\ last_op.op = "raise") =>
                 /\ cproc'[t] /= 0
                 /\ (max_size >= 1) =>
                        /\ ckey[t] \in DOMAIN cache'
                        /\ cache'[ckey[t]] = cproc'[t]]_vars

\* C14 witness: a get of a key has raised in the constructor, and a later get of the
\* same key by another thread has built and returned the resident handle
C14_Witness ==
    \E t, u \in Threads :
        /\ cpc[t] = "raised"
        /\ cpc[u] = "returned"
        /\ ckey[u] = ckey[t]
        /\ ctor_total >= 2
        /\ cproc[u] = ctor_total
        /\ ckey[u] \in DOMAIN cache
        /\ cache[ckey[u]] = cproc[u]

\* C20: a step removes a resident entry only if it is a clear (taken with the lock
\* free), or the cleanup of a get that missed and made the size exceed the capacity,
\* which removes the key whose most recent get is the oldest and no other; an entry
\* that stays keeps its handle.  Hits, gets that do not overflow and size() remove
\* nothing.
C20_EntriesLeaveByEvictionOrClear ==
    [][/\ \A k \in DOMAIN cache \ DOMAIN cache' :
              \/ /\ lock = 0 /\ lock' = 0
                 /\ cache' = EmptyDict
                 /\ last_op' = LogEntry("clear", NoKey, 0)
              \/ \E t \in Callers :
                     /\ lock = t
                     /\ cpc[t] = "cleanup"
                     /\ built[t]
                     /\ Cardinality(DOMAIN cache) > max_size
                     /\ last_get /= <<>> /\ k = Head(last_get)
                     /\ DOMAIN cache' = DOMAIN cache \ {k}
       /\ \A k \in DOMAIN cache \cap DOMAIN cache' : cache'[k] = cache[k]]_vars

\* C20 witness: a full cache of capacity 2 still holds both entries it was filled
\* with after a hit on the older one and a size() call
C20_Witness ==
    /\ AllOutside
    /\ max_size = 2
    /\ ctor_total = 2
    /\ size_max = 2
    /\ Range(access_order) = DOMAIN cache
    /\ Cardinality(DOMAIN cache) = 2
    /\ \E k \in DOMAIN cache : cache[k] = 1 /\ last_op = LogEntry("get", k, 1)

\* C21: at most one thread is inside a get (lookup, construction, insertion,
\* eviction) and it holds the lock; a clear is taken only with the lock free; and
\* while the constructor of a thread is running, no other thread moves inside the
\* cache and no get or clear completes.
C21_MutationsMutuallyExclusive ==
    /\ [](\A t, u \in Callers :
              /\ ~Outside(t) => lock = t
              /\ (~Outside(t) /\ ~Outside(u)) => t = u)
    /\ [][/\ (last_op'.op = "clear" /\ last_op' /= last_op) => (lock = 0 /\ lock' = 0)
          /\ \A t \in Callers :
                 (cpc[t] = "constructing" /\ cpc'[t] = "constructing") =>
                     /\ last_op' = last_op
                     /\ cpc' = cpc
                     /\ cproc' = cproc
                     /\ UNCHANGED <<cache, access_order, lock>>]_vars

\* C21 witness: a constructor is running on one thread for a key that is not the one
\* resident entry, while another thread that has completed a get is outside
C21_Witness ==
    \E t, u \in Threads :
        /\ t /= u
        /\ cpc[t] = "constructing"
        /\ cpc[u] = "returned"
        /\ lock = t
        /\ DOMAIN cache = {ckey[u]}
        /\ ckey[t] /= ckey[u]

\* C22 as stated: in every reachable state the number of resident entries is at most
\* the capacity, and size() never returns more than the capacity.
C22_AsStated ==
    /\ Cardinality(DOMAIN cache) <= max_size
    /\ size_max <= max_size

\* C29: whenever no get or clear is in progress, the recency list holds exactly the
\* keys of the cache map, each once.
C29_OrderListsResidentKeys ==
    AllOutside =>
        /\ Range(access_order) = DOMAIN cache
        /\ Len(access_order) = Cardinality(DOMAIN cache)

\* C29 witness: no call in progress after a failed get on one thread, with two
\* resident keys of which the older inserted one was promoted by a hit
C29_Witness ==
    /\ AllOutside
    /\ Len(access_order) = 2
    /\ cache[access_order[2]] < cache[access_order[1]]
    /\ \E t \in Threads : cpc[t] = "raised"

\* ---------------------------------------------------------------- /ask properties
Kinds(s) == {s[i].kind : i \in DOMAIN s}
HasError(s) == Kinds(s) \cap ErrorKinds /= {}

\* every line of kind a in s comes before every line of kind b
Before(s, a, b) ==
    \A i, j \in DOMAIN s : (s[i].kind = a /\ s[j].kind = b) => i < j

\* nothing of a request's processing exists: no generator, no background thread, no
\* output, no collaborator call, no directory lookup, no cache call
NothingStarted ==
    /\ gpc = "none"
    /\ bpc = "none"
    /\ stream = <<>>
    /\ message_queue = <<>>
    /\ collab_calls = {}
    /\ dir_checks = {}
    /\ cache_keys = {}
    /\ cpc[Gen] = "idle"
    /\ hist_adds = 0

\* C1 as stated: no stream has an error line followed by a line of the query and
\* answer phase, and a stream that has ended either has no error line and has the
\* 'Analyzing query' marker, or ends with an error line.
C1_AsStated ==
    (status = 200) =>
        /\ \A i, j \in DOMAIN stream :
               (i < j /\ stream[i].kind \in ErrorKinds) =>
                   stream[j].kind \notin QueryPhaseKinds
        /\ (gpc = "done") =>
               \/ ~HasError(stream) /\ "analyzing" \in Kinds(stream)
               \/ stream[Len(stream)].kind \in ErrorKinds

\* a request with both url and existing_thread, or with reprocess and a url (a field
\* is supplied when it is not blank)
Conflicting(r) ==
    \/ Truthy(r.url) /\ Truthy(r.existing_thread)
    \/ r.reprocess /\ Truthy(r.url)

\* C6: a request that supplies both url and existing_thread, or reprocess together
\* with url, is answered with 400 by a handler step that leaves the cache unchanged,
\* and after it no generator and no background thread exist, no collaborator was
\* called and the cache was not called.
C6_ConflictingRequestRejected ==
    /\ [][(apc = "idle" /\ apc' = "responded" /\ Conflicting(req')) =>
              /\ status' = 400
              /\ NothingStarted'
              /\ UNCHANGED <<cacheVars, histVars, envVars>>]_vars
    /\ []((apc = "responded" /\ Conflicting(req)) => (status = 400 /\ NothingStarted))

\* C6 witness: a request with a prompt, a url and a valid existing_thread was answered
\* with 400
C6_Witness ==
    /\ apc = "responded"
    /\ status = 400
    /\ Truthy(req.prompt)
    /\ Truthy(req.url)
    /\ validate_thread_key(req.existing_thread)
    /\ NothingStarted

\* a request whose key fails the validator, whose prompt is empty or blank, or that
\* has neither url nor existing_thread
Unacceptable(r) ==
    \/ Truthy(r.existing_thread) /\ ~validate_thread_key(r.existing_thread)
    \/ ~Truthy(r.prompt)
    \/ ~Truthy(r.url) /\ ~Truthy(r.existing_thread)

\* C7: a request whose existing_thread fails the thread-key validator, whose prompt
\* is empty or whitespace-only, or that has neither url nor existing_thread, is
\* answered with 400 and no stream: no generator, no background thread, and neither a
\* directory lookup nor a cache call with that key.
C7_UnacceptableRequestRejected ==
    /\ [][(apc = "idle" /\ apc' = "responded" /\ Unacceptable(req')) =>
              /\ status' = 400
              /\ NothingStarted'
              /\ UNCHANGED <<cacheVars, histVars, envVars>>]_vars
    /\ []((apc = "responded" /\ Unacceptable(req)) => (status = 400 /\ NothingStarted))

\* C7 witness: a request with a prompt and an existing_thread that contains a path
\* separator, and nothing else wrong, was answered with 400
C7_Witness ==
    /\ apc = "responded"
    /\ status = 400
    /\ Truthy(req.prompt)
    /\ ~Truthy(req.url)
    /\ ~req.reprocess
    /\ \E i \in DOMAIN req.existing_thread : req.existing_thread[i] = "/"
    /\ NothingStarted

\* an accepted request that names an existing thread
ExistingMode == status = 200 /\ Truthy(req.existing_thread)

\* C8 as stated: for a valid existing_thread whose directory does not exist, the
\* marker is never emitted, the cache is never called and no query is run, and the
\* stream that has ended is exactly the one 'not found' line.
C8_AsStated ==
    (ExistingMode /\ req.existing_thread \notin dirs) =>
        /\ "analyzing" \notin Kinds(stream)
        /\ cache_keys = {}
        /\ "process_query" \notin collab_calls
        /\ (gpc = "done") => stream = <<KeyLine("not_found", req.existing_thread)>>

\* an accepted request for an existing thread with a directory, reprocess false
UseAsIs == ExistingMode /\ ~req.reprocess /\ req.existing_thread \in dirs

\* C9: for an existing thread whose directory exists, reprocess false: the first item
\* of the stream is the 'Using existing thread' line with the key, the second is the
\* 'Analyzing query' marker, no progress line is emitted, no ingestion collaborator
\* is called, and the ingestion result is {thread_key: key, from_cache: true}; the
\* stream of a generator that ran to its end has both items.
C9_ExistingThreadUsedAsIs ==
    UseAsIs =>
        /\ (Len(stream) >= 1) => stream[1] = KeyLine("using", req.existing_thread)
        /\ (Len(stream) >= 2) => stream[2] = Plain("analyzing")
        /\ "progress" \notin Kinds(stream) \cup Kinds(message_queue)
        /\ collab_calls \cap {"process_thread", "reprocess_existing_thread"} = {}
        /\ (bpc = "done") =>
               /\ processing_results = FromCache(req.existing_thread)
               /\ thread_key = req.existing_thread
        /\ (gpc = "done") => Len(stream) >= 2

\* C9 witness: such a request's stream has ended after the two lines and an answer
C9_Witness ==
    /\ UseAsIs
    /\ gpc = "done"
    /\ Len(stream) >= 3
    /\ stream[Len(stream)].kind = "chunk"
    /\ processing_results.from_cache

\* an accepted request with a url
UrlMode == status = 200 /\ Truthy(req.url)

\* C10: for a request with a url: the stream starts with the 'Creating new thread'
\* line carrying the normalized url; every progress line comes after it and before
\* 'Thread processed: <key>'; 'Posts processed: <n>' comes after 'Thread processed'
\* and before the 'Analyzing query' marker, which is emitted only after both; every
\* answer chunk comes after the marker, and after a chunk come only chunks or the
\* error line of an answer stream that raised.
C10_NewThreadStreamOrder ==
    UrlMode =>
        /\ (Len(stream) >= 1) =>
               stream[1] = Line("creating", NoKey, normalize_url(req.url), 0)
        /\ \A i \in DOMAIN stream : (stream[i].kind = "progress") => i > 1
        /\ Before(stream, "progress", "processed")
        /\ Before(stream, "processed", "posts")
        /\ Before(stream, "posts", "analyzing")
        /\ Before(stream, "analyzing", "chunk")
        /\ \A i \in DOMAIN stream :
               /\ (stream[i].kind = "processed") => stream[i].key = thread_key
               /\ (stream[i].kind = "posts") =>
                      /\ stream[i].n = processing_results.posts_count
                      /\ "processed" \in Kinds(SubSeq(stream, 1, i - 1))
               /\ (stream[i].kind = "chunk") =>
                      \A j \in DOMAIN stream :
                          (j > i) => stream[j].kind \in {"chunk", "exception"}
        /\ ("analyzing" \in Kinds(stream)) =>
               /\ {"processed", "posts"} \subseteq Kinds(stream)
               /\ Cardinality({i \in DOMAIN stream : stream[i].kind = "progress"})
                      = progress_sent

\* C10 witness: the stream of a url request has ended with an answer chunk, after
\* progress lines and the lines of a result with an analytics preview
C10_Witness ==
    /\ UrlMode
    /\ gpc = "done"
    /\ progress_sent >= 1
    /\ "most_active" \in Kinds(stream)
    /\ stream[Len(stream)].kind = "chunk"
    /\ ~HasError(stream)

\* C12: within a request the queue changes only by a put, which adds the message at
\* the end and emits nothing, or by a get, which removes the oldest message and
\* emits it as the next item of the stream; the stream only grows, by one item at a
\* time; an item that does not come from the queue is emitted only when the queue is
\* empty and the background thread has ended, after which nothing is put: so every
\* message is emitted once, in the order of the puts, before the 'Analyzing query'
\* marker and before any answer chunk.
C12_QueueInOrderOnce ==
    /\ [][/\ (message_queue' /= message_queue) =>
                 \/ /\ Len(message_queue') = Len(message_queue) + 1
                    /\ SubSeq(message_queue', 1, Len(message_queue)) = message_queue
                    /\ stream' = stream
                 \/ /\ message_queue /= <<>>
                    /\ message_queue' = Tail(message_queue)
                    /\ stream' = Append(stream, Head(message_queue))
          /\ (stream' /= stream) =>
                 /\ Len(stream') = Len(stream) + 1
                 /\ SubSeq(stream', 1, Len(stream)) = stream
          /\ (stream' /= stream /\ message_queue' = message_queue) =>
                 message_queue = <<>> /\ bpc = "done"
          /\ (bpc = "done") => Len(message_queue') <= Len(message_queue)]_vars
    /\ []((Kinds(stream) \cap QueryPhaseKinds /= {}) =>
              (message_queue = <<>> /\ bpc = "done"))

\* C12 witness: the marker has been emitted after every progress message and the
\* lines of a processed thread, some of them read while the thread was still running
C12_Witness ==
    /\ "analyzing" \in Kinds(stream)
    /\ progress_sent >= 2
    /\ Cardinality({i \in DOMAIN stream : stream[i].kind = "progress"}) = progress_sent
    /\ "separator" \in Kinds(stream)
    /\ message_queue = <<>>

\* C13 as stated: an '\n\nError: <message>' line put by an except clause is the last
\* item of the stream: no second error line, no marker and no chunk follows it.
C13_AsStated ==
    (status = 200) =>
        \A i \in DOMAIN stream : (stream[i].kind = "exception") => i = Len(stream)

\* the keys of the request that have passed validate_thread_key: ask validates the
\* existing_thread field and nothing else
ValidatedKeys ==
    IF status = 200 /\ Truthy(req.existing_thread) THEN {req.existing_thread} ELSE {}

\* C16 as stated: every key the request passes to get_thread_dir or to the cache's
\* get has passed validate_thread_key before.
C16_AsStated == (dir_checks \cup cache_keys) \subseteq ValidatedKeys

\* C17 as stated, for a channel whose capacity is the number of progress messages
\* one ingestion sends: the queue never buffers more messages than that.
C17_AsStated == Len(message_queue) <= MaxProgress

\* C18 as stated: when the ingestion result has an error key, the marker is not
\* emitted, the cache is not called and no query is run.
C18_AsStated ==
    (status = 200 /\ processing_results.has_error) =>
        /\ "analyzing" \notin Kinds(stream)
        /\ cache_keys = {}
        /\ "process_query" \notin collab_calls

\* C19 as stated: the question is added to the history at most once; it has been
\* added exactly when the generator has ended after iterating the answer stream to
\* its end, and then the stream has no error line; a stream that ended without an
\* error line has it added.
C19_AsStated ==
    /\ hist_adds <= 1
    /\ (hist_adds = 1) =>
           /\ gpc = "done"
           /\ ~HasError(stream)
           /\ question_history = {<<thread_key, req.prompt>>}
    /\ (gpc = "done" /\ ~HasError(stream)) => hist_adds = 1

\* a reprocess request whose collaborator has returned its results
Reprocessed ==
    /\ ExistingMode
    /\ req.reprocess
    /\ "reprocess_existing_thread" \in collab_calls
    /\ processing_results.present

\* C26 as stated: the stream-producing context only forwards queue messages: every
\* item it yields is the head of the queue, it never enters the cache, and it makes
\* no step that calls a collaborator.
C26_AsStated ==
    [][/\ (stream' /= stream) =>
              /\ message_queue /= <<>>
              /\ stream' = Append(stream, Head(message_queue))
       /\ cpc'[Gen] = cpc[Gen]
       /\ (collab_calls' /= collab_calls) => gpc' = gpc]_vars

\* C27: after a reprocess the key of the query phase is the existing_thread key of
\* the request: the only key handed to the cache, the key of the get in progress, and
\* the key of every question-history entry recorded.
C27_ReprocessKeepsKey ==
    (ExistingMode /\ req.reprocess /\ "reprocess_existing_thread" \in collab_calls) =>
        /\ (bpc = "done" => thread_key = req.existing_thread)
        /\ cache_keys \subseteq {req.existing_thread}
        /\ (gpc = "in_get" => ckey[Gen] = req.existing_thread)
        /\ \A e \in question_history : e[1] = req.existing_thread

\* C27 witness: a reprocess request has run its query phase on the cache and recorded
\* its question
C27_Witness ==
    /\ Reprocessed
    /\ cache_keys /= {}
    /\ hist_adds = 1
    /\ question_history /= {}

\* C30: no step of the background task changes the cache map, the recency order or
\* any caller's position in the cache, and before the request's get the cache is as
\* it was when the request arrived; when the key of a successful reprocess was
\* resident, the get of the query phase is a hit that returns the handle constructed
\* before the request, and constructs nothing.
C30_IngestionLeavesCacheAlone ==
    /\ [][/\ (bpc' /= bpc \/ todo' /= todo \/ progress_sent' /= progress_sent
              \/ processing_results' /= processing_results) =>
                 UNCHANGED <<cache, access_order, lock, cpc, cproc, ctor_total>>
          /\ (GetReturns(Gen) /\ Reprocessed /\ thread_key \in keys_before[Gen]) =>
                 /\ ~built[Gen]
                 /\ cproc'[Gen] = cache[thread_key]
                 /\ cproc'[Gen] = 1
                 /\ ctor_total' = 1
                 /\ cache' = cache]_vars
    /\ [](cache_keys = {} =>
              /\ ctor_total <= 1
              /\ cache \in {EmptyDict, With(EmptyDict, WarmKey, 1)}
              /\ access_order \in {<<>>, <<WarmKey>>})

\* C30 witness: the key was resident, the reprocess succeeded with posts, and the
\* query phase got the resident handle
C30_Witness ==
    /\ Reprocessed
    /\ processing_results.posts_count > 0
    /\ thread_key = WarmKey
    /\ cpc[Gen] = "returned"
    /\ cproc[Gen] = 1
    /\ ctor_total = 1
    /\ "process_query" \in collab_calls

\* the generator is in its polling loop
Polling == gpc \in {"check_complete", "check_empty", "get"}
\* the stream of an accepted request has ended
StreamOver == gpc \in {"done", "closed"}

\* C24: when the background thread has ended the completion event is set, whatever
\* its exit path; nothing is put on the queue once the event is set; and under a fair
\* scheduler the polling loop is left and the stream of every accepted request ends.
C24_StreamEnds ==
    /\ [](bpc = "done" => (processing_complete /\ todo = <<>>))
    /\ [][processing_complete => Len(message_queue') <= Len(message_queue)]_vars
    /\ (Polling ~> ~Polling)
    /\ ((status = 200) ~> StreamOver)

\* C24 witness: the stream has ended after the background thread took the exit path
\* of a thread that was not found, with its error line delivered
C24_Witness ==
    /\ gpc = "done"
    /\ bpc = "done"
    /\ processing_complete
    /\ message_queue = <<>>
    /\ "not_found" \in Kinds(stream)

\* the client disconnected before the generator reached the query phase
IngestionDisconnect == gpc = "closed" /\ "analyzing" \notin Kinds(stream)

\* C25: the step that closes the generator leaves the background thread, the queue
\* and the event as they are; a closed generator reads and yields nothing more; a
\* background thread at a put can always put; after a disconnect in the ingestion
\* phase the cache is never called and no question is recorded; and under a fair
\* scheduler the background thread still ends with the completion event set.
C25_DisconnectLeavesIngestionRunning ==
    /\ [][/\ (gpc /= "closed" /\ gpc' = "closed") => UNCHANGED <<bgVars, chanVars>>
          /\ (gpc = "closed") =>
                 /\ gpc' = "closed"
                 /\ stream' = stream
                 /\ Len(message_queue') >= Len(message_queue)]_vars
    /\ []((bpc = "put") => ENABLED BgPut)
    /\ [](IngestionDisconnect =>
              /\ cache_keys = {}
              /\ cpc[Gen] = "idle"
              /\ hist_adds = 0
              /\ question_history = {})
    /\ (IngestionDisconnect ~> (bpc = "done" /\ processing_complete))

\* C25 witness: the client left during the ingestion, and the background thread has
\* ended with the event set and messages in the queue that nobody reads
C25_Witness ==
    /\ IngestionDisconnect
    /\ bpc = "done"
    /\ processing_complete
    /\ Len(message_queue) >= 2
    /\ "process_thread" \in collab_calls

\* ---------------------------------------------------------------- /delete_thread properties
\* C11: the clear of a successful /delete_thread leaves the cache with no entry and
\* no recency slot, for the deleted key or any other; and the first get completed
\* after it, for another key that was resident at the deletion, ran the constructor
\* (once: no other get completed in between), returns the new handle, and leaves
\* the cache holding exactly that key.
C11_DeleteEmptiesCache ==
    [][/\ (dpc = "clearing" /\ dpc' = "history") =>
              /\ cache' = EmptyDict
              /\ access_order' = <<>>
       /\ \A t \in Getters :
              (/\ GetReturns(t)
               /\ dpc \in {"history", "responded"}
               /\ last_op.op = "clear"
               /\ ckey[t] \in cleared_keys \ {dkey}) =>
                  /\ built[t]
                  /\ cproc'[t] = ctor_total
                  /\ DOMAIN cache' = {ckey[t]}
                  /\ access_order' = <<ckey[t]>>]_vars

\* C11 witness: thread k was deleted with 200 while k and another key were resident,
\* and a get of the other key has returned a handle built after the deletion, the
\* cache holding that key alone
C11_Witness ==
    /\ dstatus = 200
    /\ dkey \in cleared_keys
    /\ \E t \in Getters :
           /\ cpc[t] = "returned"
           /\ ckey[t] \in cleared_keys \ {dkey}
           /\ last_op = LogEntry("get", ckey[t], cproc[t])
           /\ cproc[t] = ctor_total
           /\ ctor_total = 3
           /\ DOMAIN cache = {ckey[t]}

\* C15: /delete_thread answers an empty or validator-rejected thread_key with 400
\* without handing a key to the delete collaborator, a thread the collaborator does
\* not find with 404, and a deleted thread with 200; the steps that answer 400 and
\* 404 leave the cache and the question history unchanged; the handler changes the
\* cache only by the clear that follows a deletion the collaborator reported, and
\* the history only for the deleted thread.
C15_DeleteOutcomes ==
    /\ \A k \in KeyFields :
           /\ (~Truthy(k) \/ ~validate_thread_key(k)) => k \in RejectedKeys
           /\ (k \in AcceptedKeys) =>
                  DeleteStatus(k, FALSE) = 404 /\ DeleteStatus(k, TRUE) = 200
    /\ [][/\ (dpc = "idle" /\ dstatus' = 400) =>
                 /\ dkey' = NoKey
                 /\ UNCHANGED <<cacheVars, histVars, envVars, cleared_keys>>
          /\ (dpc = "idle" /\ dstatus' = 404) =>
                 /\ validate_thread_key(dkey')
                 /\ dkey' \notin dirs
                 /\ UNCHANGED <<cacheVars, histVars, question_history, cleared_keys>>
          /\ (dpc = "idle" /\ dpc' = "clearing") =>
                 /\ validate_thread_key(dkey')
                 /\ dkey' \in dirs /\ dkey' \notin dirs'
                 /\ UNCHANGED <<cacheVars, histVars, question_history>>
          /\ (dpc /= dpc' /\ cache' /= cache) => dpc = "clearing"
          /\ (dstatus' = 200 /\ dstatus /= 200) =>
                 /\ dpc = "history"
                 /\ question_history' = clear_thread_history(question_history, dkey)
                 /\ UNCHANGED <<cacheVars>>]_vars
    /\ []((dstatus = 200) =>
              /\ validate_thread_key(dkey)
              /\ dkey \notin dirs
              /\ \A e \in question_history : e[1] /= dkey)

\* C15 witness: a request was answered with 404 while the cache held an entry and
\* the history its questions
C15_Witness ==
    /\ dstatus = 404
    /\ dpc = "responded"
    /\ cache /= EmptyDict
    /\ question_history /= {}
    /\ dkey \notin dirs

\* C28 as stated: once a /delete_thread for a key has answered 200, the cache holds
\* no entry for that key while the key has no directory, whatever gets of other
\* requests run meanwhile or afterwards.
C28_AsStated ==
    (dstatus = 200 /\ dkey \notin dirs) => dkey \notin DOMAIN cache

\* ---------------------------------------------------------------- concurrent requests
\* the messages the background thread of request r has put, in the order of the puts
PutBy(r) == [i \in 1..r_sent[r] |-> Msg(r, i)]

\* C23: with several requests streaming at once, every item in a request's stream and
\* every message in its queue was produced for that request, and the stream followed
\* by the queue is exactly what the request's own background thread has put, in
\* order, followed after the loop by the generator's own line.
C23_StreamsKeptApart ==
    \A r \in Requests :
        /\ \A i \in DOMAIN r_stream[r] : r_stream[r][i].owner = r
        /\ \A i \in DOMAIN r_message_queue[r] : r_message_queue[r][i].owner = r
        /\ IF r_gen[r] = "done"
           THEN r_stream[r] = Append(PutBy(r), Msg(r, 0)) /\ r_message_queue[r] = <<>>
           ELSE r_stream[r] \o r_message_queue[r] = PutBy(r)

\* C23 witness: two requests are both in their polling loop, each with items already
\* yielded and messages still queued
C23_Witness ==
    \E r, q \in Requests :
        /\ r /= q
        /\ r_gen[r] = "polling" /\ r_gen[q] = "polling"
        /\ r_stream[r] /= <<>> /\ r_stream[q] /= <<>>
        /\ r_message_queue[r] /= <<>> /\ r_message_queue[q] /= <<>>

====
